---- MODULE Spec2Model ----
(***************************************************************************)
(* Model of the NBA data utilities: the SportsBlaze boxscore client        *)
(* (sportsblaze_nba_client.py), the minimum-minutes player filter          *)
(* (fetch_player_stats.py) and the nba_api scraper (scraper.py).           *)
(*                                                                         *)
(* One behaviour is one top-level call.  The boxscore client is modelled   *)
(* GET by GET: every HTTP response is chosen by the environment.           *)
(***************************************************************************)
EXTENDS Integers, Sequences, FiniteSets, TLC

VARIABLES
    api_key,     \* SportsBlazeNBAClient.api_key
    pc,          \* "idle" | "daily" (inside the candidate loop) | "done"
    op,          \* the top-level call in progress
    start_date,  \* argument of get_date_range_boxscores
    end_date,    \* argument of get_date_range_boxscores
    endD,        \* local `end` of get_date_range_boxscores (a datetime)
    current,     \* local `current` of get_date_range_boxscores (a datetime)
    results,     \* local `results` of get_date_range_boxscores
    date,        \* local `date` of the get_daily_boxscores call in progress
    idx,         \* position of the candidate loop in endpoints_to_try
    gets,        \* every session.get issued so far, with its response
    printed,     \* the "Error fetching data for ..." lines printed so far
    daily,       \* the get_daily_boxscores calls completed so far
    ret,         \* what the top-level call returned or raised
    call,        \* the arguments of the stats operation called
    provider_calls, \* the nba_api endpoint calls made so far
    df,          \* the DataFrame the stats provider returned
    df_filtered, \* local `df_filtered` of fetch_player_stats
    table,       \* what the stats operation returned
    files,       \* the files written so far, in order
    errors,      \* the "Error ..." lines the stats operations printed
    clock,       \* the time, in half seconds
    runs,        \* the stats operations called so far
    argv,        \* the command line of a run of scraper.py
    exit_code    \* the exit status of that run

clientVars == <<api_key, start_date, end_date, endD, current, results,
                date, idx, gets, printed, daily, ret>>

boxVars == <<pc, op, clientVars>>

statVars == <<call, provider_calls, df, df_filtered, table, files, errors>>

cliVars == <<argv, exit_code>>

vars == <<boxVars, statVars, clock, runs, cliVars>>

----------------------------------------------------------------------------
(* Bounds of the model *)

\* longest date range, in days
MaxDays == 3

\* most rows in a DataFrame of player totals
MaxRows == 3

\* most calls of one stats operation in a row
MaxRuns == 2

----------------------------------------------------------------------------
(* Calendar: datetime.strptime, strftime and timedelta(days=1).            *)
(* A date string is the record of its written fields; a datetime is its    *)
(* day ordinal, counted from the first day of the first modelled year.     *)

Years == 2023..2024

DateStr(y, m, d) == [y |-> y, m |-> m, d |-> d]

\* the argument value None
NoDate == DateStr(0, 0, 0)

IsLeap(y) == (y % 4 = 0 /\ y % 100 # 0) \/ y % 400 = 0

DaysInMonth(y, m) ==
    IF m = 2 THEN (IF IsLeap(y) THEN 29 ELSE 28)
    ELSE IF m \in {4, 6, 9, 11} THEN 30 ELSE 31

DaysInYear(y) == IF IsLeap(y) THEN 366 ELSE 365

RECURSIVE DaysBeforeYear(_)
DaysBeforeYear(y) ==
    IF y <= 2023 THEN 0 ELSE DaysBeforeYear(y - 1) + DaysInYear(y - 1)

RECURSIVE DaysBeforeMonth(_, _)
DaysBeforeMonth(y, m) ==
    IF m <= 1 THEN 0 ELSE DaysBeforeMonth(y, m - 1) + DaysInMonth(y, m - 1)

\* strptime raises ValueError unless the fields name a calendar day
ValidDate(s) ==
    /\ s.y \in Years
    /\ s.m \in 1..12
    /\ s.d \in 1..DaysInMonth(s.y, s.m)

\* datetime.strptime(s, "%Y-%m-%d")
Strptime(s) == DaysBeforeYear(s.y) + DaysBeforeMonth(s.y, s.m) + s.d

RECURSIVE YearOf(_, _)
YearOf(n, y) == IF n > DaysInYear(y) THEN YearOf(n - DaysInYear(y), y + 1) ELSE y

RECURSIVE MonthOf(_, _, _)
MonthOf(n, y, m) ==
    IF n > DaysInMonth(y, m) THEN MonthOf(n - DaysInMonth(y, m), y, m + 1) ELSE m

\* current.strftime("%Y-%m-%d")
Strftime(n) ==
    LET y == YearOf(n, 2023)
        r == n - DaysBeforeYear(y)
        m == MonthOf(r, y, 1)
    IN  DateStr(y, m, r - DaysBeforeMonth(y, m))

\* current + timedelta(days=1)
PlusOneDay(n) == n + 1

----------------------------------------------------------------------------
(* HTTP: the request _make_request builds and what it does with a response *)

ApiKeys == {"sbfzua9rcwzj09qtc9ouzl3", "other-key"}

base_url == "https://api.sportsblaze.com/nba/v1"

NoParams == [k \in {} |-> ""]

AuthMethods == {"query", "header", "both", "none"}

\* lines 47-50: the query parameters sent
RequestParams(params, auth_method, key) ==
    IF auth_method \in {"query", "both"}
    THEN [k \in DOMAIN params \cup {"key", "apikey", "api_key"} |->
             IF k \in {"key", "apikey", "api_key"} THEN key ELSE params[k]]
    ELSE params

\* the headers sent if line 52 did not test the auth method
RequestHeaders_Always(auth_method, key) ==
    [h \in {"X-API-Key", "Authorization", "api-key"} |->
        IF h = "Authorization" THEN "Bearer " \o key ELSE key]

\* lines 44, 52-55: the headers sent
RequestHeaders(auth_method, key) ==
    IF auth_method \in {"header", "both"}
    THEN [h \in {"X-API-Key", "Authorization", "api-key"} |->
             IF h = "Authorization" THEN "Bearer " \o key ELSE key]
    ELSE NoParams

\* the session.get call of line 60
Request(endpoint, params, auth_method, key) ==
    [url     |-> [base |-> base_url, endpoint |-> endpoint],
     params  |-> RequestParams(params, auth_method, key),
     headers |-> RequestHeaders(auth_method, key)]

\* response bodies: two JSON documents and one that is not JSON
Bodies == {"{\"games\": 1}", "{\"games\": 2}", "<html>"}

\* status 0 stands for no response at all (connection error, timeout)
Responses ==
    [status : {200}, body : Bodies] \cup [status : {0, 404, 500}, body : {""}]

NoDoc == [games |-> 0]

\* response.json()
IsJson(body) == body \in {"{\"games\": 1}", "{\"games\": 2}"}

ParseJson(body) ==
    IF body = "{\"games\": 1}" THEN [games |-> 1] ELSE [games |-> 2]

\* response.raise_for_status()
RaisesForStatus(status) == status >= 400 /\ status < 600

Exc(type, status) == [type |-> type, status |-> status]

\* the exception classes involved and their base classes
BaseClass(type) ==
    CASE type = "HTTPError" -> "RequestException"
      [] type = "JSONDecodeError" -> "RequestException"
      [] type = "RequestException" -> "Exception"
      [] type = "ValueError" -> "Exception"
      [] OTHER -> "BaseException"

RECURSIVE IsInstance(_, _)
IsInstance(type, class) ==
    \/ type = class
    \/ type # "BaseException" /\ IsInstance(BaseClass(type), class)

NoExc == Exc("", 0)

Returned(doc) == [kind |-> "returned", exc |-> NoExc, doc |-> doc]

Raised(exc) == [kind |-> "raised", exc |-> exc, doc |-> NoDoc]

NoRet == [kind |-> "none", exc |-> NoExc, doc |-> NoDoc]

\* lines 59-70: the outcome of _make_request for a response
MakeRequest(resp) ==
    IF resp.status = 0 THEN Raised(Exc("RequestException", 0))
    ELSE IF RaisesForStatus(resp.status) THEN Raised(Exc("HTTPError", resp.status))
    ELSE IF ~IsJson(resp.body) THEN Raised(Exc("JSONDecodeError", resp.status))
    ELSE Returned(ParseJson(resp.body))

----------------------------------------------------------------------------
(* get_daily_boxscores *)

\* lines 86-90
endpoints_to_try == <<"boxscores/daily", "games/daily", "schedule/daily">>

\* the candidate list if every entry were the first endpoint
Endpoint_FirstOnly(i, d) == [path |-> endpoints_to_try[1], date |-> d, ext |-> ".json"]

Endpoint(i, d) == [path |-> endpoints_to_try[i], date |-> d, ext |-> ".json"]

Continue == [kind |-> "continue", exc |-> NoExc, doc |-> NoDoc]

\* the candidate loop if line 96 were missing: a 404 is re-raised
Candidate_404Fatal(i, resp) == MakeRequest(resp)

\* the candidate loop if line 96 did not test the status: every HTTP error
\* moves on to the next candidate
Candidate_AnyStatusContinues(i, resp) ==
    LET r == MakeRequest(resp) IN
    IF r.kind = "returned" THEN r
    ELSE IF IsInstance(r.exc.type, "HTTPError")
         THEN IF i < Len(endpoints_to_try)
              THEN Continue
              ELSE Raised(Exc("Exception", 0))
         ELSE r

\* the candidate loop if it stopped one candidate early
Candidate_StopsEarly(i, resp) ==
    LET r == MakeRequest(resp) IN
    IF r.kind = "returned" THEN r
    ELSE IF IsInstance(r.exc.type, "HTTPError") /\ r.exc.status = 404
         THEN IF i < Len(endpoints_to_try) - 1
              THEN Continue
              ELSE Raised(Exc("Exception", 0))
         ELSE r

\* lines 92-100: one iteration of the candidate loop, given the response to
\* its GET: "continue" with the next candidate, or the outcome of the call
Candidate(i, resp) ==
    LET r == MakeRequest(resp) IN
    IF r.kind = "returned" THEN r
    ELSE IF IsInstance(r.exc.type, "HTTPError") /\ r.exc.status = 404
         THEN IF i < Len(endpoints_to_try)
              THEN Continue
              ELSE Raised(Exc("Exception", 0))
         ELSE r

\* line 94: the GET of candidate i, made with the default auth method
Get(i, d, resp) ==
    [auth |-> "query",
     req  |-> Request(Endpoint(i, d), NoParams, "query", api_key),
     resp |-> resp]

\* the exceptions caught if line 127 named only the HTTP error
Caught_HTTPErrorOnly(exc) == IsInstance(exc.type, "HTTPError")

\* line 127: the exceptions the range loop catches
Caught(exc) == IsInstance(exc.type, "Exception")

DailyCall(d, out) == [date |-> d, kind |-> out.kind, exc |-> out.exc, doc |-> out.doc]

----------------------------------------------------------------------------
(* Tabular data: pandas values, to_numeric, filtering and sort_values *)

\* cell values: a number, a text (the sequence of its characters), None, NaN
Num(n) == [t |-> "num", n |-> n, s |-> <<>>]

Str(s) == [t |-> "str", n |-> 0, s |-> s]

None == [t |-> "none", n |-> 0, s |-> <<>>]

NaN == [t |-> "nan", n |-> 0, s |-> <<>>]

Digits == <<"0", "1", "2", "3", "4", "5", "6", "7", "8", "9">>

IsDigit(c) == \E i \in DOMAIN Digits : Digits[i] = c

DigitValue(c) == (CHOOSE i \in DOMAIN Digits : Digits[i] = c) - 1

RECURSIVE Decimal(_)
Decimal(s) ==
    IF s = <<>> THEN 0
    ELSE 10 * Decimal(SubSeq(s, 1, Len(s) - 1)) + DigitValue(s[Len(s)])

\* pd.to_numeric(value, errors='coerce') of one cell
ToNumeric(v) ==
    IF v.t = "num" THEN v
    ELSE IF v.t = "str" /\ v.s # <<>> /\ \A i \in DOMAIN v.s : IsDigit(v.s[i])
         THEN Num(Decimal(v.s))
         ELSE NaN

\* the comparison v >= t of a cell with a number: False for NaN
GreaterEqual_Strict(v, t) == v.t = "num" /\ v.n > t

GreaterEqual(v, t) == v.t = "num" /\ v.n >= t

Frame(hasMIN, rows) == [hasMIN |-> hasMIN, rows |-> rows]

NoFrame == Frame(FALSE, <<>>)

\* line 51: the MIN column replaced by its numeric conversion
ConvertMIN(rows) ==
    [i \in DOMAIN rows |-> [rows[i] EXCEPT !.MIN = ToNumeric(rows[i].MIN)]]

\* line 52: df[df['MIN'] >= min_minutes]
FilterMIN(rows, min_minutes) ==
    SelectSeq(rows, LAMBDA r : GreaterEqual(r.MIN, min_minutes))

\* the rows of index set S in every order that is descending by MIN
RECURSIVE Arrangements(_, _)
Arrangements(rows, S) ==
    IF S = {} THEN {<<>>}
    ELSE UNION { { <<rows[i]>> \o rest : rest \in Arrangements(rows, S \ {i}) } :
                 i \in {i \in S : \A j \in S : rows[i].MIN.n >= rows[j].MIN.n} }

\* line 58: sort_values('MIN', ascending=False).  The default kind is
\* 'quicksort', which is not a stable sort: rows with equal keys may come out
\* in any order, so every descending arrangement of the rows is possible.
SortValues(rows) == Arrangements(rows, DOMAIN rows)

NoOut == [kind |-> "none", rows |-> <<>>]

ReturnedFrame(rows) == [kind |-> "df", rows |-> rows]

ReturnedNone == [kind |-> "None", rows |-> <<>>]

\* f"{filename}.{ext}" under the output directory
FileName(name, params, stamp, ext) ==
    [name |-> name, params |-> params, stamp |-> stamp, ext |-> ext]

\* a file written at time `now`
Write(filename, rows, now) == [file |-> filename, rows |-> rows, at |-> now]

\* datetime.now().strftime("%Y%m%d_%H%M%S"): the time to the second
Timestamp(now) == now \div 2

Formats == {"json", "csv", "xml"}

\* what a provider call can do: return a DataFrame or raise
ProviderErrors == {"ReadTimeout", "HTTPError"}

Failed(e) == [ok |-> FALSE, exc |-> e, frame |-> NoFrame]

Answer(frame) == [ok |-> TRUE, exc |-> "", frame |-> frame]

\* the arguments of a stats operation (0 and "" where it has no such argument)
Call(season, id, team_abbr, min_minutes, output_format) ==
    [season |-> season, id |-> id, team_abbr |-> team_abbr,
     min_minutes |-> min_minutes, output_format |-> output_format]

NoCall == Call("", 0, "", 0, "")

ProviderCall(endpoint, args, answer) ==
    [endpoint |-> endpoint, args |-> args, ok |-> answer.ok, exc |-> answer.exc]

----------------------------------------------------------------------------
(* fetch_player_stats, lines 34-101 *)

RawMins ==
    {Str(<<"1", "0">>), Str(<<"2", "0">>), Str(<<"a", "b", "c">>),
     Num(15), Num(20), None}

PlayerRows ==
    UNION { [1..n -> RawMins] : n \in 0..MaxRows }

PlayerFrames ==
    { Frame(TRUE, [i \in DOMAIN m |-> [id |-> i, MIN |-> m[i]]]) : m \in PlayerRows }
    \cup { Frame(FALSE, [i \in 1..2 |-> [id |-> i, MIN |-> None]]) }

Thresholds == {0, 15, 20}

\* lines 203-210 and 70-77: the extension of the file written; writing
\* raises ValueError for any other format
SaveRaises(output_format) == output_format \notin {"json", "csv"}

\* int(min_minutes)
IntOf(min_minutes) == min_minutes

FetchPlayerStats(season, min_minutes, output_format, answer, now) ==
    /\ pc \in {"idle", "done"}
    /\ runs' = runs + 1
    /\ clock' = now
    /\ op' = "fetch_player_stats"
    /\ pc' = "done"
    /\ call' = Call(season, 0, "", min_minutes, output_format)
    /\ provider_calls' = Append(provider_calls,
            ProviderCall("LeagueDashPlayerStats", [season |-> season, id |-> 0], answer))
    /\ df' = answer.frame
    /\ IF ~answer.ok
       THEN /\ errors' = Append(errors, answer.exc)
            /\ table' = ReturnedNone
            /\ UNCHANGED <<df_filtered, files>>
       ELSE IF ~answer.frame.hasMIN
       THEN \* line 55, then line 58 raises KeyError
            /\ df_filtered' = answer.frame.rows
            /\ errors' = Append(errors, "KeyError")
            /\ table' = ReturnedNone
            /\ UNCHANGED files
       ELSE \E sorted \in SortValues(FilterMIN(ConvertMIN(answer.frame.rows), min_minutes)) :
            /\ df_filtered' = sorted
            /\ IF SaveRaises(output_format)
               THEN /\ errors' = Append(errors, "ValueError")
                    /\ table' = ReturnedNone
                    /\ UNCHANGED files
               ELSE /\ files' = Append(files,
                          Write(FileName("player_stats",
                                         [season |-> season, id |-> IntOf(min_minutes),
                                          team_abbr |-> ""],
                                         Timestamp(now), output_format),
                                sorted, now))
                    /\ table' = ReturnedFrame(sorted)
                    /\ UNCHANGED errors
    /\ UNCHANGED <<clientVars, cliVars>>

----------------------------------------------------------------------------
(* NbaScraper, scraper.py lines 38-212 *)

Teams == {"LAL", "BOS"}

GameRows == UNION { [1..n -> Teams] : n \in 0..2 }

GameFrames ==
    { Frame(FALSE, [i \in DOMAIN m |-> [id |-> i, TEAM_ABBREVIATION |-> m[i]]]) :
        m \in GameRows }

\* line 57: games_df[games_df['TEAM_ABBREVIATION'] == team_abbr]
FilterTeam(rows, team_abbr) ==
    SelectSeq(rows, LAMBDA r : r.TEAM_ABBREVIATION = team_abbr)

\* the try block common to the five scrape operations: the provider call,
\* _save_data, the return; and the except clause that prints and returns None
Scrape(opname, endpoint, args, rows, name, params, output_format, answer, now) ==
    /\ pc \in {"idle", "done"}
    /\ runs' = runs + 1
    /\ clock' = now
    /\ op' = opname
    /\ pc' = "done"
    /\ call' = Call(args.season, args.id, params.team_abbr, 0, output_format)
    /\ provider_calls' = Append(provider_calls, ProviderCall(endpoint, args, answer))
    /\ df' = answer.frame
    /\ IF ~answer.ok
       THEN /\ errors' = Append(errors, answer.exc)
            /\ table' = ReturnedNone
            /\ UNCHANGED files
       ELSE IF SaveRaises(output_format)
       THEN /\ errors' = Append(errors, "ValueError")
            /\ table' = ReturnedNone
            /\ UNCHANGED files
       ELSE /\ files' = Append(files, Write(FileName(name, params, 0, output_format), rows, now))
            /\ table' = ReturnedFrame(rows)
            /\ UNCHANGED errors
    /\ UNCHANGED <<clientVars, df_filtered>>

\* lines 38-68; an empty team_abbr stands for None
ScrapeGames(season, team_abbr, output_format, answer, now) ==
    Scrape("scrape_games", "LeagueGameFinder", [season |-> season, id |-> 0],
           IF team_abbr # "" THEN FilterTeam(answer.frame.rows, team_abbr)
                             ELSE answer.frame.rows,
           "games", [season |-> season, id |-> 0, team_abbr |-> team_abbr],
           output_format, answer, now)

\* lines 70-95
ScrapePlayers(season, output_format, answer, now) ==
    Scrape("scrape_players", "CommonAllPlayers", [season |-> season, id |-> 0],
           answer.frame.rows,
           "players", [season |-> season, id |-> 0, team_abbr |-> ""],
           output_format, answer, now)

\* lines 97-122
ScrapePlayerStats(player_id, season, output_format, answer, now) ==
    Scrape("scrape_player_stats", "PlayerGameLog", [season |-> season, id |-> player_id],
           answer.frame.rows,
           "player", [season |-> season, id |-> player_id, team_abbr |-> ""],
           output_format, answer, now)

\* lines 124-149
ScrapeTeamStats(team_id, season, output_format, answer, now) ==
    Scrape("scrape_team_stats", "TeamGameLog", [season |-> season, id |-> team_id],
           answer.frame.rows,
           "team", [season |-> season, id |-> team_id, team_abbr |-> ""],
           output_format, answer, now)

\* lines 151-175
ScrapeStandings(season, output_format, answer, now) ==
    Scrape("scrape_standings", "LeagueStandings", [season |-> season, id |-> 0],
           answer.frame.rows,
           "standings", [season |-> season, id |-> 0, team_abbr |-> ""],
           output_format, answer, now)

ScrapeOps ==
    {"scrape_games", "scrape_players", "scrape_player_stats", "scrape_team_stats",
     "scrape_standings"}


----------------------------------------------------------------------------
(* Inputs *)

StartDates ==
    {DateStr(2024, 10, 28), DateStr(2024, 2, 28), DateStr(2023, 12, 30),
     DateStr(2023, 2, 29)}

EndDates(s) ==
    IF ValidDate(s)
    THEN {Strftime(Strptime(s) + k) : k \in (0 - 1)..(MaxDays - 1)}
         \cup {DateStr(2024, 11, 31)}
    ELSE {DateStr(2023, 3, 1)}

Today == {DateStr(2024, 10, 30)}

\* no command line: the operation was called directly
NoArgv == [command |-> "", season |-> "", team_abbr |-> "",
           team_id |-> [given |-> FALSE, text |-> <<>>],
           player_id |-> [given |-> FALSE, text |-> <<>>],
           player_name |-> [given |-> FALSE, text |-> ""],
           format |-> "", output_dir |-> ""]

\* no exit status: no run of scraper.py
NoExit == 0 - 1

----------------------------------------------------------------------------
(* Initial state: a constructed client, no call made *)

Init ==
    /\ api_key \in ApiKeys
    /\ pc = "idle"
    /\ op = "none"
    /\ start_date = NoDate
    /\ end_date = NoDate
    /\ endD = 0
    /\ current = 0
    /\ results = <<>>
    /\ date = NoDate
    /\ idx = 0
    /\ gets = <<>>
    /\ printed = <<>>
    /\ daily = <<>>
    /\ ret = NoRet
    /\ call = NoCall
    /\ provider_calls = <<>>
    /\ df = NoFrame
    /\ df_filtered = <<>>
    /\ table = NoOut
    /\ files = <<>>
    /\ errors = <<>>
    /\ clock = 2
    /\ runs = 0
    /\ argv = NoArgv
    /\ exit_code = NoExit

----------------------------------------------------------------------------
(* get_date_range_boxscores: entry, lines 113-120 *)

GetDateRangeBoxscores(s, e) ==
    /\ pc = "idle"
    /\ op' = "range"
    /\ start_date' = s
    /\ end_date' = e
    /\ IF ~ValidDate(s) \/ ~ValidDate(e)
       THEN /\ ret' = Raised(Exc("ValueError", 0))
            /\ pc' = "done"
            /\ UNCHANGED <<endD, current, date, idx>>
       ELSE /\ endD' = Strptime(e)
            /\ current' = Strptime(s)
            /\ IF Strptime(s) <= Strptime(e)
               THEN /\ pc' = "daily"
                    /\ date' = Strftime(Strptime(s))
                    /\ idx' = 1
                    /\ ret' = ret
               ELSE /\ pc' = "done"
                    /\ ret' = Returned(NoDoc)
                    /\ UNCHANGED <<date, idx>>
    /\ UNCHANGED <<api_key, results, gets, printed, daily>>
    /\ UNCHANGED <<statVars, clock, runs, cliVars>>

(* get_daily_boxscores called directly: entry, lines 82-90 *)

GetDailyBoxscores(d) ==
    /\ pc = "idle"
    /\ op' = "daily"
    /\ \E now \in Today : date' = IF d = NoDate THEN now ELSE d
    /\ idx' = 1
    /\ pc' = "daily"
    /\ UNCHANGED <<api_key, start_date, end_date, endD, current, results,
                   gets, printed, daily, ret>>
    /\ UNCHANGED <<statVars, clock, runs, cliVars>>

(* One GET of the candidate loop and everything that follows it up to the  *)
(* next GET: lines 92-100, and in a range lines 121-132.                   *)

DailyRequest(resp) ==
    /\ pc = "daily"
    /\ gets' = Append(gets, Get(idx, date, resp))
    /\ LET out == Candidate(idx, resp) IN
       IF out.kind = "continue"
       THEN /\ idx' = idx + 1
            /\ UNCHANGED <<pc, date, current, results, printed, daily, ret>>
       ELSE /\ daily' = Append(daily, DailyCall(date, out))
            /\ IF op = "daily" \/ (out.kind = "raised" /\ ~Caught(out.exc))
               THEN /\ ret' = out
                    /\ pc' = "done"
                    /\ UNCHANGED <<date, idx, current, results, printed>>
               ELSE /\ results' = IF out.kind = "returned"
                                  THEN Append(results, [date |-> date, data |-> out.doc])
                                  ELSE results
                    /\ printed' = IF out.kind = "raised"
                                  THEN Append(printed, [date |-> date, exc |-> out.exc])
                                  ELSE printed
                    /\ current' = PlusOneDay(current)
                    /\ IF PlusOneDay(current) <= endD
                       THEN /\ date' = Strftime(PlusOneDay(current))
                            /\ idx' = 1
                            /\ UNCHANGED <<pc, ret>>
                       ELSE /\ pc' = "done"
                            /\ ret' = Returned(NoDoc)
                            /\ UNCHANGED <<date, idx>>
    /\ UNCHANGED <<api_key, op, start_date, end_date, endD>>
    /\ UNCHANGED <<statVars, clock, runs, cliVars>>

(* _make_request called directly with an auth method, one GET *)

MakeRequestCall(endpoint, params, auth_method, resp) ==
    /\ pc = "idle"
    /\ op' = "request"
    /\ gets' = Append(gets, [auth |-> auth_method,
                             req  |-> Request(endpoint, params, auth_method, api_key),
                             resp |-> resp])
    /\ ret' = MakeRequest(resp)
    /\ pc' = "done"
    /\ UNCHANGED <<api_key, start_date, end_date, endD, current, results,
                   date, idx, printed, daily>>
    /\ UNCHANGED <<statVars, clock, runs, cliVars>>

----------------------------------------------------------------------------

DoRange ==
    /\ pc = "idle"
    /\ \E s \in StartDates : \E e \in EndDates(s) : GetDateRangeBoxscores(s, e)

DoDaily ==
    /\ pc = "idle"
    /\ \E d \in {NoDate, DateStr(2024, 10, 29), DateStr(2024, 13, 1)} : GetDailyBoxscores(d)

DoDailyRequest ==
    /\ pc = "daily"
    /\ \E resp \in Responses : DailyRequest(resp)

DoMakeRequest ==
    /\ pc = "idle"
    /\ \E auth \in AuthMethods, resp \in Responses :
       \E params \in {NoParams, [k \in {"season"} |-> "2024-25"], [k \in {"key"} |-> "mine"]} :
        MakeRequestCall([path |-> "boxscores", date |-> NoDate, ext |-> ".json"],
                        params, auth, resp)

Seasons == {"2023-24", "2024-25"}

PlayerAnswers == {Failed(e) : e \in ProviderErrors} \cup {Answer(f) : f \in PlayerFrames}

GameAnswers == {Failed(e) : e \in ProviderErrors} \cup {Answer(f) : f \in GameFrames}

\* what the provider answers when an operation is called again
LaterPlayerAnswers ==
    {Failed("HTTPError"), Answer(Frame(TRUE, <<[id |-> 1, MIN |-> Num(20)]>>))}

LaterGameAnswers ==
    {Failed("HTTPError"), Answer(Frame(FALSE, <<[id |-> 1, TEAM_ABBREVIATION |-> "LAL"]>>))}

\* the times of a later call: within the same second or after it
Later == {clock + 1, clock + 2}

DoFetchPlayerStats ==
    /\ pc = "idle"
    /\ \E t \in Thresholds, f \in Formats, a \in PlayerAnswers :
        FetchPlayerStats("2024-25", t, f, a, clock)

DoScrapeGames ==
    /\ pc = "idle"
    /\ UNCHANGED cliVars
    /\ \E s \in Seasons, t \in {"", "LAL"}, f \in Formats, a \in GameAnswers :
        ScrapeGames(s, t, f, a, clock)

DoScrapePlayers ==
    /\ pc = "idle"
    /\ UNCHANGED cliVars
    /\ \E s \in Seasons, f \in Formats, a \in GameAnswers : ScrapePlayers(s, f, a, clock)

DoScrapePlayerStats ==
    /\ pc = "idle"
    /\ UNCHANGED cliVars
    /\ \E s \in Seasons, f \in Formats, a \in GameAnswers :
        ScrapePlayerStats(2544, s, f, a, clock)

DoScrapeTeamStats ==
    /\ pc = "idle"
    /\ UNCHANGED cliVars
    /\ \E s \in Seasons, f \in Formats, a \in GameAnswers :
        ScrapeTeamStats(1610612747, s, f, a, clock)

DoScrapeStandings ==
    /\ pc = "idle"
    /\ UNCHANGED cliVars
    /\ \E s \in Seasons, f \in Formats, a \in GameAnswers : ScrapeStandings(s, f, a, clock)

\* the same operation called again with the same arguments, later
DoFetchPlayerStatsAgain ==
    /\ pc = "done" /\ op = "fetch_player_stats" /\ runs < MaxRuns
    /\ \E a \in LaterPlayerAnswers, now \in Later :
        FetchPlayerStats(call.season, call.min_minutes, call.output_format, a, now)

DoScrapeAgain ==
    /\ pc = "done" /\ op \in ScrapeOps /\ argv = NoArgv /\ runs < MaxRuns
    /\ UNCHANGED cliVars
    /\ \E a \in LaterGameAnswers, now \in Later :
        \/ op = "scrape_games"
             /\ ScrapeGames(call.season, call.team_abbr, call.output_format, a, now)
        \/ op = "scrape_players"
             /\ ScrapePlayers(call.season, call.output_format, a, now)
        \/ op = "scrape_player_stats"
             /\ ScrapePlayerStats(call.id, call.season, call.output_format, a, now)
        \/ op = "scrape_team_stats"
             /\ ScrapeTeamStats(call.id, call.season, call.output_format, a, now)
        \/ op = "scrape_standings"
             /\ ScrapeStandings(call.season, call.output_format, a, now)

----------------------------------------------------------------------------
(* main of scraper.py, lines 215-321 *)

\* an option of the command line: given with a text, or not given
Given(text) == [given |-> TRUE, text |-> text]

NotGivenInt == [given |-> FALSE, text |-> <<>>]

NotGivenText == [given |-> FALSE, text |-> ""]

Commands ==
    {"games", "players", "player-stats", "team-stats", "standings", "list-teams",
     "search-player"}

\* type=int: int(text) raises ValueError unless the text is a number
IntAccepts(arg) ==
    ~arg.given \/ (arg.text # <<>> /\ \A i \in DOMAIN arg.text : IsDigit(arg.text[i]))

\* parser.parse_args() of line 268: argparse exits with status 2 on a command
\* or a format outside the choices and on an id that is not an integer
ParseRejects(a) ==
    \/ a.command \notin Commands
    \/ a.format \notin {"json", "csv"}
    \/ ~IntAccepts(a.team_id)
    \/ ~IntAccepts(a.player_id)

\* args.team_id, args.player_id: None or the integer
IntArg(arg) ==
    IF arg.given THEN [none |-> FALSE, n |-> Decimal(arg.text)]
                 ELSE [none |-> TRUE, n |-> 0]

\* `not args.player_id`, `not args.team_id` if only None counted as missing
NotInt_NoneOnly(v) == v.none

\* `not args.player_id`, `not args.team_id` of lines 287, 298
NotInt(v) == v.none \/ v.n = 0

\* `not args.player_name` of line 318
NotText(arg) == ~arg.given \/ arg.text = ""

\* line 36: mkdir(exist_ok=True) raises when the parent directory is missing
MkdirRaises(output_dir) == output_dir = "missing/data"

\* the run ends without a fetch, with an exit status and a line printed
ExitWithoutFetch(code, line) ==
    /\ op' = "main"
    /\ pc' = "done"
    /\ exit_code' = code
    /\ errors' = IF line = "" THEN errors ELSE Append(errors, line)
    /\ UNCHANGED <<clientVars, call, provider_calls, df, df_filtered, table, files,
                   clock, runs>>

Main(a, answer) ==
    /\ pc = "idle"
    /\ argv' = a
    /\ IF ParseRejects(a) THEN ExitWithoutFetch(2, "usage")
       ELSE IF MkdirRaises(a.output_dir) THEN ExitWithoutFetch(1, "FileNotFoundError")
       ELSE IF a.command = "games"
            THEN ScrapeGames(a.season, a.team_abbr, a.format, answer, clock)
                 /\ exit_code' = 0
       ELSE IF a.command = "players"
            THEN ScrapePlayers(a.season, a.format, answer, clock) /\ exit_code' = 0
       ELSE IF a.command = "player-stats"
            THEN IF NotInt(IntArg(a.player_id))
                 THEN ExitWithoutFetch(1, "Error: --player-id required for player-stats command")
                 ELSE ScrapePlayerStats(IntArg(a.player_id).n, a.season, a.format,
                                        answer, clock)
                      /\ exit_code' = 0
       ELSE IF a.command = "team-stats"
            THEN IF NotInt(IntArg(a.team_id))
                 THEN ExitWithoutFetch(1, "Error: --team-id required for team-stats command")
                 ELSE ScrapeTeamStats(IntArg(a.team_id).n, a.season, a.format,
                                      answer, clock)
                      /\ exit_code' = 0
       ELSE IF a.command = "standings"
            THEN ScrapeStandings(a.season, a.format, answer, clock) /\ exit_code' = 0
       ELSE IF a.command = "list-teams"
            THEN ExitWithoutFetch(0, "")
       ELSE IF NotText(a.player_name)
            THEN ExitWithoutFetch(1, "Error: --player-name required for search-player command")
            ELSE ExitWithoutFetch(0, "")

IdTexts == {NotGivenInt, Given(<<"0">>), Given(<<"2", "5">>), Given(<<"a">>)}

CommandLines ==
    [command    : Commands \cup {"bogus"},
     season     : {"2023-24"},
     team_abbr  : {"", "LAL"},
     team_id    : IdTexts,
     player_id  : IdTexts,
     player_name : {NotGivenText, Given(""), Given("LeBron James")},
     format     : Formats,
     output_dir : {"data", "missing/data"}]

DoMain ==
    /\ pc = "idle"
    /\ \E a \in CommandLines, answer \in LaterGameAnswers : Main(a, answer)

Next ==
    \/ DoRange
    \/ DoDaily
    \/ DoDailyRequest
    \/ DoMakeRequest
    \/ DoFetchPlayerStats
    \/ DoScrapeGames
    \/ DoScrapePlayers
    \/ DoScrapePlayerStats
    \/ DoScrapeTeamStats
    \/ DoScrapeStandings
    \/ DoFetchPlayerStatsAgain
    \/ DoScrapeAgain
    \/ DoMain

Spec == Init /\ [][Next]_vars

\* the calls of the boxscore client alone
ClientNext ==
    \/ DoRange
    \/ DoDaily
    \/ DoDailyRequest
    \/ DoMakeRequest

\* every GET of the candidate loop completes: line 60 passes timeout=30, so
\* session.get returns a response or raises
FairSpec == Init /\ [][ClientNext]_vars /\ WF_vars(DoDailyRequest)

TypeOK ==
    /\ pc \in {"idle", "daily", "done"}
    /\ op \in {"none", "range", "daily", "request", "fetch_player_stats", "main"} \cup ScrapeOps
    /\ exit_code \in {NoExit, 0, 1, 2}
    /\ runs \in 0..MaxRuns
    /\ idx \in 0..Len(endpoints_to_try)
    /\ Len(results) <= MaxDays

----------------------------------------------------------------------------
(* Properties of the boxscore client *)

\* a get_date_range_boxscores call whose two arguments parse
RangeCall == op = "range" /\ ValidDate(start_date) /\ ValidDate(end_date)

\* (d1 - d0).days + 1
RangeDays == Strptime(end_date) - Strptime(start_date) + 1

\* calendar order of two date strings
DateBefore(a, b) ==
    \/ a.y < b.y
    \/ a.y = b.y /\ a.m < b.m
    \/ a.y = b.y /\ a.m = b.m /\ a.d < b.d

DateOf(g) == g.req.url.endpoint.date

PathOf(g) == g.req.url.endpoint.path

Is2xx(resp) == resp.status >= 200 /\ resp.status < 300

\* no GET after the k-th is for the same date
LastGetOfDate(k) == \A j \in DOMAIN gets : j > k => DateOf(gets[j]) # DateOf(gets[k])

\* the position of the k-th GET among the GETs for its date
PosInDate(k) == Cardinality({j \in 1..k : DateOf(gets[j]) = DateOf(gets[k])})

GetsFor(d) == SelectSeq(gets, LAMBDA g : DateOf(g) = d)

\* C1: a returned range fetch over [d0, d1], d0 <= d1, has exactly
\* (d1 - d0).days + 1 entries, the i-th for the i-th calendar day, whatever
\* the outcome of each date.
C1_OneEntryPerDay ==
    (RangeCall /\ pc = "done" /\ Strptime(start_date) <= Strptime(end_date)) =>
        /\ Len(results) = RangeDays
        /\ \A i \in DOMAIN results :
              results[i].date = Strftime(Strptime(start_date) + i - 1)

\* C2: in a range fetch every date whose single-date fetch failed has an
\* entry for that date in the result.
C2_FailedDateRecorded ==
    op = "range" =>
        \A i \in DOMAIN daily :
            daily[i].kind = "raised" =>
                \E j \in DOMAIN results : results[j].date = daily[i].date

\* C3: in a range fetch no per-date failure stops the batch: the range call
\* never raises, the single-date fetches are made for consecutive calendar
\* days from the start date in ascending order, a failed fetch is followed by
\* the fetch of the next day (or by the return, after the last day), all the
\* days have been fetched when the call returns, and every date that
\* succeeded has its document in the result.
C3_FailureIsolation ==
    RangeCall =>
        /\ ret.kind # "raised"
        /\ \A i \in DOMAIN daily :
              /\ daily[i].date = Strftime(Strptime(start_date) + i - 1)
              /\ i > 1 => DateBefore(daily[i - 1].date, daily[i].date)
              /\ daily[i].kind = "returned" =>
                    \E j \in DOMAIN results :
                        results[j] = [date |-> daily[i].date, data |-> daily[i].doc]
        /\ pc = "daily" =>
              /\ Len(daily) < RangeDays
              /\ date = Strftime(Strptime(start_date) + Len(daily))
        /\ pc = "done" =>
              Len(daily) = IF RangeDays > 0 THEN RangeDays ELSE 0

C3_Witness ==
    /\ RangeCall /\ pc = "done" /\ ret.kind = "returned"
    /\ Len(daily) = 3
    /\ daily[1].exc.type = "HTTPError"
    /\ daily[2].exc.type = "RequestException"
    /\ daily[3].kind = "returned"
    /\ Len(results) = 1

\* C4: in a single-date fetch a 404 from a candidate that is not the last
\* one is followed by the GET of the next candidate; a 2xx with a JSON body
\* that follows a 404 makes its parsed body the result of the fetch; and no
\* GET for the date follows a 2xx.
C4_FallbackAfter404 ==
    op \in {"daily", "range"} =>
        \A k \in DOMAIN gets :
            /\ Is2xx(gets[k].resp) => LastGetOfDate(k)
            /\ (gets[k].resp.status = 404 /\ PathOf(gets[k]) # "schedule/daily") =>
                  IF k = Len(gets)
                  THEN pc = "daily" /\ date = DateOf(gets[k]) /\ idx = PosInDate(k) + 1
                  ELSE DateOf(gets[k + 1]) = DateOf(gets[k])
            /\ ( /\ k > 1
                 /\ DateOf(gets[k - 1]) = DateOf(gets[k])
                 /\ gets[k - 1].resp.status = 404
                 /\ Is2xx(gets[k].resp)
                 /\ IsJson(gets[k].resp.body) ) =>
                  /\ \E i \in DOMAIN daily :
                        /\ daily[i].date = DateOf(gets[k])
                        /\ daily[i].kind = "returned"
                        /\ daily[i].doc = ParseJson(gets[k].resp.body)
                  /\ op = "daily" => ret = Returned(ParseJson(gets[k].resp.body))

C4_Witness ==
    /\ op = "daily" /\ pc = "done"
    /\ Len(gets) = 2
    /\ gets[1].resp.status = 404
    /\ PathOf(gets[2]) = "games/daily"
    /\ gets[2].resp = [status |-> 200, body |-> "{\"games\": 2}"]
    /\ ret = Returned([games |-> 2])

\* the exception a failed response must surface as
ErrorOf(resp) ==
    IF resp.status = 0 THEN Exc("RequestException", 0) ELSE Exc("HTTPError", resp.status)

\* C5: in a single-date fetch a transport failure, or an HTTP error status
\* other than 404, on any candidate ends the candidate loop: no later GET is
\* made for the date and the fetch raises that error to its caller.
C5_OtherErrorAborts ==
    op \in {"daily", "range"} =>
        \A k \in DOMAIN gets :
            (gets[k].resp.status = 0
                \/ (RaisesForStatus(gets[k].resp.status) /\ gets[k].resp.status # 404)) =>
                /\ LastGetOfDate(k)
                /\ \E i \in DOMAIN daily :
                      /\ daily[i].date = DateOf(gets[k])
                      /\ daily[i].kind = "raised"
                      /\ daily[i].exc = ErrorOf(gets[k].resp)
                /\ op = "daily" => (pc = "done" /\ ret = Raised(ErrorOf(gets[k].resp)))

C5_Witness ==
    /\ op = "daily" /\ pc = "done"
    /\ Len(gets) = 2
    /\ gets[1].resp.status = 404
    /\ gets[2].resp.status = 500
    /\ ret = Raised(Exc("HTTPError", 500))

\* C6: the GETs of a single-date fetch go to boxscores/daily, games/daily and
\* schedule/daily in that order, each at most once; a fetch whose GETs all
\* returned 404 has made exactly one GET per candidate and raised, and it
\* returned no document.
C6_AllCandidates404 ==
    op \in {"daily", "range"} =>
        /\ \A k \in DOMAIN gets :
              /\ PosInDate(k) <= 3
              /\ PathOf(gets[k]) =
                    <<"boxscores/daily", "games/daily", "schedule/daily">>[PosInDate(k)]
              /\ gets[k].req.url.endpoint.ext = ".json"
        /\ \A i \in DOMAIN daily :
              LET G == GetsFor(daily[i].date) IN
              (\A n \in DOMAIN G : G[n].resp.status = 404) =>
                  /\ Len(G) = 3
                  /\ daily[i].kind = "raised"
                  /\ daily[i].exc.type = "Exception"
                  /\ \A j \in DOMAIN results : results[j].date # daily[i].date
                  /\ op = "daily" => ret.kind = "raised"
        /\ \A k \in DOMAIN gets :
              (PosInDate(k) = 3 /\ gets[k].resp.status = 404) =>
                  \E i \in DOMAIN daily :
                      daily[i].date = DateOf(gets[k]) /\ daily[i].kind = "raised"

C6_Witness ==
    /\ op = "daily" /\ pc = "done"
    /\ Len(gets) = 3
    /\ \A k \in 1..3 : gets[k].resp.status = 404
    /\ ret = Raised(Exc("Exception", 0))

KeyInParams(req) == \E k \in DOMAIN req.params : req.params[k] = api_key

KeyInHeaders(req) ==
    \E h \in DOMAIN req.headers : req.headers[h] \in {api_key, "Bearer " \o api_key}

\* C7: a request built with auth method 'query' carries the API key in its
\* query parameters and in no header, one built with 'header' carries it in
\* its headers and in no query parameter, one built with 'both' carries it
\* in both.
C7_AuthMode ==
    \A k \in DOMAIN gets :
        LET g == gets[k] IN
        /\ g.auth = "query" => (KeyInParams(g.req) /\ ~KeyInHeaders(g.req))
        /\ g.auth = "header" => (KeyInHeaders(g.req) /\ ~KeyInParams(g.req))
        /\ g.auth = "both" => (KeyInParams(g.req) /\ KeyInHeaders(g.req))

C7_Witness ==
    /\ op = "request"
    /\ Len(gets) = 1
    /\ gets[1].auth = "header"
    /\ gets[1].req.headers["X-API-Key"] = api_key
    /\ DOMAIN gets[1].req.params = {"season"}

----------------------------------------------------------------------------
(* Properties of the stats operations *)

\* the minutes a cell stands for, -1 when it is not numeric or is missing
Minutes(v) ==
    CASE v = Str(<<"1", "0">>) -> 10
      [] v = Str(<<"2", "0">>) -> 20
      [] v = Num(15) -> 15
      [] v = Num(20) -> 20
      [] OTHER -> 0 - 1

\* a fetch_player_stats call whose provider call returned a MIN column
Filtered ==
    op = "fetch_player_stats" /\ provider_calls[Len(provider_calls)].ok /\ df.hasMIN

\* the ids of the fetched rows whose minutes are numeric and >= t
Qualifying(t) ==
    {df.rows[i].id : i \in {i \in DOMAIN df.rows : Minutes(df.rows[i].MIN) >= t}}

\* C8: the minimum-minutes filter keeps exactly the rows whose minutes are
\* numeric and >= the threshold, each once and with its numeric minutes; a
\* returned DataFrame is that filtered set.
C8_FilterExact ==
    Filtered =>
        /\ {df_filtered[i].id : i \in DOMAIN df_filtered} = Qualifying(call.min_minutes)
        /\ Len(df_filtered) = Cardinality(Qualifying(call.min_minutes))
        /\ \A i \in DOMAIN df_filtered :
              df_filtered[i].MIN = Num(Minutes(df.rows[df_filtered[i].id].MIN))
        /\ table.kind = "df" => table.rows = df_filtered

C8_Witness ==
    /\ Filtered
    /\ call.min_minutes = 15
    /\ Len(df.rows) = 3
    /\ df.rows[1].MIN = Str(<<"1", "0">>)
    /\ df.rows[2].MIN = Str(<<"2", "0">>)
    /\ df.rows[3].MIN = Str(<<"a", "b", "c">>)
    /\ df_filtered = <<[id |-> 2, MIN |-> Num(20)]>>
    /\ table = ReturnedFrame(df_filtered)

\* C9: the output of the minimum-minutes filter is in descending order of
\* minutes, and rows with equal minutes keep their original relative order.
C9_SortedStable ==
    Filtered =>
        \A i, j \in DOMAIN df_filtered :
            i < j =>
                /\ df_filtered[i].MIN.n >= df_filtered[j].MIN.n
                /\ df_filtered[i].MIN.n = df_filtered[j].MIN.n =>
                      df_filtered[i].id < df_filtered[j].id

\* C10: a scrape operation makes one provider call; when that call fails the
\* operation raises to its caller, and otherwise (the format being one it
\* can write) it returns the record set.
C10_ProviderErrorPropagates ==
    (op \in ScrapeOps /\ pc = "done") =>
        /\ Len(provider_calls) = runs
        /\ ~provider_calls[runs].ok => table.kind = "raised"
        /\ (provider_calls[runs].ok /\ ~SaveRaises(call.output_format)) => table.kind = "df"

StatOps == ScrapeOps \cup {"fetch_player_stats"}

\* a finished stats operation that reached its export: the provider call
\* returned, and in fetch_player_stats the sort had a MIN column to sort by
ReachedExport ==
    /\ op \in StatOps /\ pc = "done"
    /\ provider_calls[Len(provider_calls)].ok
    /\ op = "fetch_player_stats" => df.hasMIN

\* C11: an export asked for in a format other than 'json' or 'csv' makes the
\* fetch/export operation raise to its caller, and writes no file.
C11_UnsupportedFormatFatal ==
    (ReachedExport /\ call.output_format \notin {"json", "csv"}) =>
        /\ table.kind = "raised"
        /\ files = <<>>

\* C14: when the fetched record set has no MIN column, fetch_player_stats
\* returns all the players it fetched, and exports them when the format is
\* one it can write.
C14_NoMinColumnReturnsAll ==
    ( /\ op = "fetch_player_stats" /\ pc = "done"
      /\ provider_calls[Len(provider_calls)].ok
      /\ ~df.hasMIN ) =>
        /\ table.kind = "df"
        /\ {table.rows[i].id : i \in DOMAIN table.rows} =
              {df.rows[i].id : i \in DOMAIN df.rows}
        /\ call.output_format \in {"json", "csv"} => files # <<>>

\* C12: an export made at a later timestamp than an earlier export never
\* writes to the file the earlier export wrote, the file name carrying the
\* timestamp.
C12_NoOverwrite ==
    \A i, j \in DOMAIN files :
        (i < j /\ Timestamp(files[j].at) > Timestamp(files[i].at)) =>
            files[i].file # files[j].file

----------------------------------------------------------------------------
(* Properties of the command line of scraper.py *)

\* a finished run of scraper.py
CliRun == argv # NoArgv /\ pc = "done"

\* the required argument of the subcommand was not given
LacksRequired ==
    \/ argv.command = "player-stats" /\ ~argv.player_id.given
    \/ argv.command = "team-stats" /\ ~argv.team_id.given
    \/ argv.command = "search-player" /\ ~argv.player_name.given

\* the required argument of the subcommand was given as 0 or as empty
RequiredIsEmpty ==
    \/ argv.command = "player-stats" /\ argv.player_id = Given(<<"0">>)
    \/ argv.command = "team-stats" /\ argv.team_id = Given(<<"0">>)
    \/ argv.command = "search-player" /\ argv.player_name = Given("")

\* the command line is one argparse refuses
BadUsage ==
    \/ argv.command = "bogus"
    \/ argv.format = "xml"
    \/ argv.team_id = Given(<<"a">>)
    \/ argv.player_id = Given(<<"a">>)

NoFetch == provider_calls = <<>> /\ runs = 0 /\ files = <<>>

\* C13 as stated: a run exits with code 1, without a fetch, when the
\* subcommand lacks its required argument, and with code 0 in every other
\* case.
C13_ExitCodes ==
    CliRun =>
        IF LacksRequired THEN exit_code = 1 /\ NoFetch ELSE exit_code = 0

\* C13 as amended: a run exits with code 2 when argparse refuses the command
\* line; otherwise with code 1, without a fetch, when the output directory
\* cannot be created or when the required argument of player-stats,
\* team-stats or search-player is not given, is 0 or is empty; and with
\* code 0 in every other case, also when the fetch failed.
C13_ExitCodesAmended ==
    CliRun =>
        IF BadUsage THEN exit_code = 2 /\ NoFetch
        ELSE IF argv.output_dir = "missing/data" THEN exit_code = 1 /\ NoFetch
        ELSE IF LacksRequired \/ RequiredIsEmpty THEN exit_code = 1 /\ NoFetch
        ELSE /\ exit_code = 0
             /\ argv.command \notin {"list-teams", "search-player"} =>
                   Len(provider_calls) = 1

C13_Witness ==
    /\ CliRun
    /\ argv.command = "player-stats"
    /\ ~argv.player_id.given
    /\ ~BadUsage
    /\ argv.output_dir = "data"
    /\ exit_code = 1
    /\ NoFetch

\* a run whose fetch failed and was recovered
C13_RecoveredRun ==
    CliRun /\ Len(provider_calls) = 1 /\ ~provider_calls[1].ok /\ exit_code = 0

----------------------------------------------------------------------------
(* Termination of the range fetch *)

\* the number of days of the range, 0 when it is empty
DaysInRange == IF RangeDays > 0 THEN RangeDays ELSE 0

\* at most 3 GETs per day of the range, and no two GETs of one date for the
\* same candidate endpoint
BoundedGets ==
    /\ Len(gets) <= 3 * DaysInRange
    /\ \A j, k \in DOMAIN gets :
          (j < k /\ DateOf(gets[j]) = DateOf(gets[k])) =>
              gets[j].req.url.endpoint # gets[k].req.url.endpoint

\* the call returned an empty result and made no request
EmptyWithoutRequest ==
    /\ pc = "done"
    /\ ret = Returned(NoDoc)
    /\ results = <<>>
    /\ gets = <<>>

\* C15: a range fetch always terminates; for start_date > end_date it
\* returns an empty result without a request, and for a range of n days it
\* makes at most 3*n GETs, at most one per candidate endpoint per date,
\* whatever the provider answers.
C15_RangeTerminates ==
    /\ [](RangeCall => BoundedGets)
    /\ []((RangeCall /\ Strptime(start_date) > Strptime(end_date)) =>
              EmptyWithoutRequest)
    /\ [](op = "range" => <>(pc = "done"))

\* a range of MaxDays days that took all its 3 GETs on every day
C15_Witness ==
    /\ RangeCall
    /\ pc = "done"
    /\ RangeDays = MaxDays
    /\ Len(gets) = 3 * MaxDays
    /\ ret = Returned(NoDoc)

\* an empty range, returned
C15_EmptyRange ==
    RangeCall /\ Strptime(start_date) > Strptime(end_date) /\ EmptyWithoutRequest

====
